---- MODULE Spec2Model ----
(***************************************************************************)
(* Model of @kakang/mongodb-controller: the filter tokenizer               *)
(* (findNextPair), the value normalizer (normalize) and the pipeline       *)
(* compiler of Controller (computePreQuery, computePostQuery, computeSort, *)
(* computeOption, computePipeline), under Spec; the Controller's           *)
(* collection (constructor and setter) and its write operations            *)
(* (insertOne .. deleteById) with their events, under WriteSpec.           *)
(*                                                                         *)
(* A JavaScript string is a sequence of one-character strings.  A          *)
(* JavaScript value is a record tagged by t; every tag has its own field   *)
(* names.                                                                  *)
(***************************************************************************)
EXTENDS Integers, Sequences, FiniteSets, TLC

VARIABLES
    mode,              \* which program runs: "pipeline", "normalize", "tokenize",
                       \* "collection" or "write"
    search, filter, sort, page, pageSize,      \* arguments of computePipeline
    searchFields, postMatchKeywords, autoRegExpSearch,   \* Controller options
    transform,         \* the stages buildAggregateBuilder returns
    pc,                \* position inside computePipeline
    f,                 \* the local `filter` of the running classifier loop
    i,                 \* the loop variable of the running classifier loop
    arr,               \* the local `arr` of the running classifier
    calls,             \* findNextPair calls made by the running loop
    starts,            \* startIndex of every findNextPair call of the loop
    last,              \* result of the latest findNextPair call
    preScan, postScan, \* the pairs each loop extracted, in order
    preArr, postArr,   \* the raw pairs each loop pushed onto arr, in order
    builder,           \* the stage sequence under construction
    produced,          \* the stages each step of computePipeline produced
    error,             \* the error computePipeline threw, or NoError
    nInput, nResult, nAgain, nPhase,  \* normalize applied once and twice
    jsonLoose,         \* whether the validator's isJSON accepts a Date and null
    controller,        \* the Controller under construction and assignment
    documents,         \* the documents of the collection, by id
    call               \* the write operation each caller runs, with its locals

vars == << mode, search, filter, sort, page, pageSize, searchFields,
           postMatchKeywords, autoRegExpSearch, transform, pc, f, i, arr,
           calls, starts, last, preScan, postScan, preArr, postArr, builder,
           produced, error, nInput, nResult, nAgain, nPhase, jsonLoose,
           controller, documents, call >>

(***************************************************************************)
(* Bounds of the model.                                                    *)
(***************************************************************************)
MaxFilterLen == 3      \* filters: every string over FilterAlphabet up to this length
MaxCalls == 6          \* findNextPair calls one classifier loop may make in the model
MaxFreeLen == 2        \* normalize: every string over FreeAlphabet up to this length
MaxPad == 1            \* normalize: characters put before and after a fragment
MaxSortLen == 3        \* sorts: every string over SortAlphabet up to this length
MaxPage == 3           \* pages: every page number from -1 to this one
MaxPageSize == 6       \* pages: every page size from 0 to this one
MaxRows == 14          \* pages: inputs of every number of rows up to this one
MaxAssignments == 3    \* collection: values given to one Controller, the constructor's included
MaxDocuments == 2      \* writes: documents the collection holds before the calls

(***************************************************************************)
(* Strings.                                                                *)
(***************************************************************************)
RECURSIVE StringsUpTo(_, _)
StringsUpTo(alphabet, n) ==
    IF n = 0 THEN { << >> }
    ELSE LET shorter == StringsUpTo(alphabet, n - 1)
         IN  shorter \cup { s \o << c >> : s \in shorter, c \in alphabet }

\* String.prototype.startsWith / endsWith / includes
startsWith(s, p) == Len(s) >= Len(p) /\ SubSeq(s, 1, Len(p)) = p
endsWith(s, p) == Len(s) >= Len(p) /\ SubSeq(s, Len(s) - Len(p) + 1, Len(s)) = p
includes(s, p) ==
    \E k \in 0 .. (Len(s) - Len(p)) : SubSeq(s, k + 1, k + Len(p)) = p

(***************************************************************************)
(* JavaScript values.                                                      *)
(***************************************************************************)
Str(s) == [t |-> "str", s |-> s]
Bool(b) == [t |-> "bool", b |-> b]
Num(n) == [t |-> "num", n |-> n]
Inf(sign) == [t |-> "inf", sign |-> sign]          \* Infinity, -Infinity
NaN == [t |-> "nan"]
DateV(iso) == [t |-> "date", iso |-> iso]           \* iso: Date.toISOString()
Null == [t |-> "null"]
Undefined == [t |-> "undefined"]
Arr(items) == [t |-> "arr", items |-> items]
Obj(entries) == [t |-> "obj", entries |-> entries]  \* entries: <<[k, v]>> in key order
Throw(err) == [t |-> "throw", err |-> err]
Entry(k, v) == [k |-> k, v |-> v]

\* @kakang/validator predicates used by normalize
isString(v) == v.t = "str"
isNumber(v) == v.t \in {"num", "inf"}
isArray(v) == v.t = "arr"
isNull(v) == v.t = "null"
isObject(v) == v.t \in {"obj", "arr", "date", "null"}      \* typeof v === 'object'

Digits == << "0", "1", "2", "3", "4", "5", "6", "7", "8", "9" >>
LowerCase == << "a", "b", "c", "d", "e", "f", "g", "h", "i", "j", "k", "l", "m",
                "n", "o", "p", "q", "r", "s", "t", "u", "v", "w", "x", "y", "z" >>
UpperCase == << "A", "B", "C", "D", "E", "F", "G", "H", "I", "J", "K", "L", "M",
                "N", "O", "P", "Q", "R", "S", "T", "U", "V", "W", "X", "Y", "Z" >>
Range(q) == { q[k] : k \in 1 .. Len(q) }
IndexOf(q, c) == CHOOSE k \in 1 .. Len(q) : q[k] = c
IsDigit(c) == c \in Range(Digits)
DigitVal(c) == IndexOf(Digits, c) - 1
WhiteSpace == { " " }

\* String.prototype.toLowerCase
toLowerCase(s) ==
    [ k \in 1 .. Len(s) |->
        IF s[k] \in Range(UpperCase) THEN LowerCase[IndexOf(UpperCase, s[k])] ELSE s[k] ]

\* String.prototype.trim
RECURSIVE trimStart(_)
trimStart(s) == IF s # << >> /\ s[1] \in WhiteSpace THEN trimStart(Tail(s)) ELSE s
RECURSIVE trimEnd(_)
trimEnd(s) ==
    IF s # << >> /\ s[Len(s)] \in WhiteSpace THEN trimEnd(SubSeq(s, 1, Len(s) - 1)) ELSE s
trim(s) == trimEnd(trimStart(s))

RECURSIVE NatToString(_)
NatToString(n) ==
    IF n < 10 THEN << Digits[n + 1] >> ELSE NatToString(n \div 10) \o << Digits[(n % 10) + 1] >>
RECURSIVE DigitsToNat(_)
DigitsToNat(s) ==
    IF s = << >> THEN 0 ELSE 10 * DigitsToNat(SubSeq(s, 1, Len(s) - 1)) + DigitVal(s[Len(s)])
AllDigits(s) == s # << >> /\ \A k \in 1 .. Len(s) : IsDigit(s[k])

Chars(str) ==
    CASE str = "true" -> << "t", "r", "u", "e" >>
      [] str = "false" -> << "f", "a", "l", "s", "e" >>
      [] str = "null" -> << "n", "u", "l", "l" >>
      [] str = "undefined" -> << "u", "n", "d", "e", "f", "i", "n", "e", "d" >>
      [] str = "Infinity" -> << "I", "n", "f", "i", "n", "i", "t", "y" >>
      [] str = "$function" -> << "$", "f", "u", "n", "c", "t", "i", "o", "n" >>
      [] str = "$accumulator" ->
            << "$", "a", "c", "c", "u", "m", "u", "l", "a", "t", "o", "r" >>
      [] str = "[object Object]" ->
            << "[", "o", "b", "j", "e", "c", "t", " ", "O", "b", "j", "e", "c", "t", "]" >>
      [] str = "dateString" -> << "d", "a", "t", "e", "S", "t", "r", "i", "n", "g" >>
      [] str = "$regex" -> << "$", "r", "e", "g", "e", "x" >>

(***************************************************************************)
(* Number(string): the string is trimmed; the empty string is 0; a signed  *)
(* run of decimal digits is its value; [+-]Infinity is infinite; anything  *)
(* else is NaN.  The strings of this model hold no ".", no exponent and no *)
(* radix prefix.                                                           *)
(***************************************************************************)
StringToNumber(s) ==
    LET u == trim(s)
        signed == u # << >> /\ u[1] \in {"+", "-"}
        body == IF signed THEN Tail(u) ELSE u
        neg == signed /\ u[1] = "-"
    IN  IF u = << >> THEN Num(0)
        ELSE IF body = Chars("Infinity") THEN Inf(IF neg THEN -1 ELSE 1)
        ELSE IF AllDigits(body) THEN Num(IF neg THEN 0 - DigitsToNat(body) ELSE DigitsToNat(body))
        ELSE NaN

\* isNaN(x) of a string x: Number(x) is NaN
isNaN(s) == StringToNumber(s) = NaN

(***************************************************************************)
(* String(v) and JSON.stringify(v).                                        *)
(***************************************************************************)
NumberToString(v) ==
    IF v.t = "inf" THEN (IF v.sign < 0 THEN << "-" >> ELSE << >>) \o Chars("Infinity")
    ELSE IF v.n < 0 THEN << "-" >> \o NatToString(0 - v.n)
    ELSE NatToString(v.n)

RECURSIVE Join(_, _)
Join(parts, sep) ==
    IF parts = << >> THEN << >>
    ELSE IF Len(parts) = 1 THEN parts[1]
    ELSE parts[1] \o sep \o Join(Tail(parts), sep)

RECURSIVE ToStringJS(_)
ToStringJS(v) ==
    CASE v.t = "str" -> v.s
      [] v.t \in {"num", "inf"} -> NumberToString(v)
      [] v.t = "bool" -> IF v.b THEN Chars("true") ELSE Chars("false")
      [] v.t = "null" -> Chars("null")
      [] v.t = "undefined" -> Chars("undefined")
      [] v.t = "arr" ->
            Join([ k \in 1 .. Len(v.items) |->
                     IF v.items[k].t \in {"null", "undefined"} THEN << >>
                     ELSE ToStringJS(v.items[k]) ], << "," >>)
      [] v.t = "obj" -> Chars("[object Object]")

\* JSON's quoting of a string: `"` and `\` are escaped
RECURSIVE Escape(_)
Escape(s) ==
    IF s = << >> THEN << >>
    ELSE (IF s[1] \in { "\"", "\\" } THEN << "\\", s[1] >> ELSE << s[1] >>) \o Escape(Tail(s))
Quote(s) == << "\"" >> \o Escape(s) \o << "\"" >>

RECURSIVE JSONstringify(_)
JSONstringify(v) ==
    CASE v.t = "str" -> Quote(v.s)
      [] v.t = "num" -> NumberToString(v)
      [] v.t \in {"inf", "null", "undefined"} -> Chars("null")
      [] v.t = "bool" -> IF v.b THEN Chars("true") ELSE Chars("false")
      [] v.t = "date" -> Quote(v.iso)
      [] v.t = "arr" ->
            << "[" >> \o Join([ k \in 1 .. Len(v.items) |-> JSONstringify(v.items[k]) ], << "," >>)
                     \o << "]" >>
      [] v.t = "obj" ->
            LET kept == SelectSeq(v.entries, LAMBDA e : e.v.t # "undefined")
            IN  << "{" >> \o Join([ k \in 1 .. Len(kept) |->
                                     Quote(kept[k].k) \o << ":" >> \o JSONstringify(kept[k].v) ],
                                  << "," >>)
                         \o << "}" >>

(***************************************************************************)
(* JSON.parse(text): objects, arrays, strings (with \" and \\), integers,  *)
(* true, false, null, and white space between tokens.  A parse step        *)
(* returns [ok, v, p]: the value read and the position after it.           *)
(***************************************************************************)
ParseFail == [ok |-> FALSE, v |-> Null, p |-> 0]
ParseOk(v, p) == [ok |-> TRUE, v |-> v, p |-> p]

RECURSIVE SkipWs(_, _)
SkipWs(s, p) == IF p <= Len(s) /\ s[p] \in WhiteSpace THEN SkipWs(s, p + 1) ELSE p

\* the characters of a string literal from p (after the opening quote)
RECURSIVE ParseStringBody(_, _, _)
ParseStringBody(s, p, acc) ==
    IF p > Len(s) THEN ParseFail
    ELSE IF s[p] = "\"" THEN ParseOk(Str(acc), p + 1)
    ELSE IF s[p] = "\\"
         THEN IF p + 1 <= Len(s) /\ s[p + 1] \in { "\"", "\\" }
              THEN ParseStringBody(s, p + 2, acc \o << s[p + 1] >>)
              ELSE ParseFail
    ELSE ParseStringBody(s, p + 1, acc \o << s[p] >>)

RECURSIVE DigitRunEnd(_, _)
DigitRunEnd(s, p) == IF p <= Len(s) /\ IsDigit(s[p]) THEN DigitRunEnd(s, p + 1) ELSE p

ParseNumber(s, p) ==
    LET neg == s[p] = "-"
        q == IF neg THEN p + 1 ELSE p
        e == DigitRunEnd(s, q)
    IN  IF e = q THEN ParseFail
        ELSE IF s[q] = "0" /\ e > q + 1 THEN ParseFail
        ELSE ParseOk(Num(IF neg THEN 0 - DigitsToNat(SubSeq(s, q, e - 1))
                                ELSE DigitsToNat(SubSeq(s, q, e - 1))), e)

ParseLiteral(s, p, word, v) ==
    IF SubSeq(s, p, p + Len(word) - 1) = word /\ p + Len(word) - 1 <= Len(s)
    THEN ParseOk(v, p + Len(word)) ELSE ParseFail

\* an object keeps a repeated key's first position and its last value
ObjSet(entries, k, v) ==
    IF \E n \in 1 .. Len(entries) : entries[n].k = k
    THEN [ n \in 1 .. Len(entries) |-> IF entries[n].k = k THEN Entry(k, v) ELSE entries[n] ]
    ELSE Append(entries, Entry(k, v))

RECURSIVE ParseValue(_, _)
RECURSIVE ParseMembers(_, _, _)
RECURSIVE ParseElements(_, _, _)

ParseValue(s, p0) ==
    LET p == SkipWs(s, p0)
    IN  IF p > Len(s) THEN ParseFail
        ELSE CASE s[p] = "{" ->
                    LET q == SkipWs(s, p + 1)
                    IN  IF q <= Len(s) /\ s[q] = "}" THEN ParseOk(Obj(<< >>), q + 1)
                        ELSE ParseMembers(s, q, << >>)
               [] s[p] = "[" ->
                    LET q == SkipWs(s, p + 1)
                    IN  IF q <= Len(s) /\ s[q] = "]" THEN ParseOk(Arr(<< >>), q + 1)
                        ELSE ParseElements(s, q, << >>)
               [] s[p] = "\"" -> ParseStringBody(s, p + 1, << >>)
               [] s[p] = "t" -> ParseLiteral(s, p, Chars("true"), Bool(TRUE))
               [] s[p] = "f" -> ParseLiteral(s, p, Chars("false"), Bool(FALSE))
               [] s[p] = "n" -> ParseLiteral(s, p, Chars("null"), Null)
               [] s[p] = "-" \/ IsDigit(s[p]) -> ParseNumber(s, p)
               [] OTHER -> ParseFail

\* members of an object from p (a key is expected), entries read so far in acc
ParseMembers(s, p, acc) ==
    IF p > Len(s) \/ s[p] # "\"" THEN ParseFail
    ELSE LET key == ParseStringBody(s, p + 1, << >>)
         IN  IF ~key.ok THEN ParseFail
             ELSE LET c == SkipWs(s, key.p)
                  IN  IF c > Len(s) \/ s[c] # ":" THEN ParseFail
                      ELSE LET val == ParseValue(s, c + 1)
                           IN  IF ~val.ok THEN ParseFail
                               ELSE LET d == SkipWs(s, val.p)
                                        acc2 == ObjSet(acc, key.v.s, val.v)
                                    IN  IF d > Len(s) THEN ParseFail
                                        ELSE IF s[d] = "}" THEN ParseOk(Obj(acc2), d + 1)
                                        ELSE IF s[d] = ","
                                             THEN ParseMembers(s, SkipWs(s, d + 1), acc2)
                                        ELSE ParseFail

ParseElements(s, p, acc) ==
    LET val == ParseValue(s, p)
    IN  IF ~val.ok THEN ParseFail
        ELSE LET d == SkipWs(s, val.p)
                 acc2 == Append(acc, val.v)
             IN  IF d > Len(s) THEN ParseFail
                 ELSE IF s[d] = "]" THEN ParseOk(Arr(acc2), d + 1)
                 ELSE IF s[d] = "," THEN ParseElements(s, d + 1, acc2)
                 ELSE ParseFail

\* JSON.parse: the value, or the SyntaxError it throws
JSONparse(s) ==
    LET r == ParseValue(s, 1)
    IN  IF r.ok /\ SkipWs(s, r.p) > Len(s) THEN r.v ELSE Throw("SyntaxError")

(***************************************************************************)
(* D.isISO8601Date and new Date(text), on the calendar forms               *)
(* YYYY-MM-DD, YYYY-MM-DDThh:mm:ssZ and YYYY-MM-DDThh:mm:ss.mmmZ.          *)
(***************************************************************************)
TwoDigits(s, p, lo, hi) ==
    /\ IsDigit(s[p]) /\ IsDigit(s[p + 1])
    /\ DigitsToNat(SubSeq(s, p, p + 1)) \in lo .. hi

IsCalendarDate(s) ==
    /\ Len(s) >= 10
    /\ AllDigits(SubSeq(s, 1, 4))
    /\ s[5] = "-" /\ TwoDigits(s, 6, 1, 12)
    /\ s[8] = "-" /\ TwoDigits(s, 9, 1, 31)

IsClockTime(s) ==
    /\ s[11] = "T" /\ TwoDigits(s, 12, 0, 23)
    /\ s[14] = ":" /\ TwoDigits(s, 15, 0, 59)
    /\ s[17] = ":" /\ TwoDigits(s, 18, 0, 59)

isISO8601Date(s) ==
    \/ Len(s) = 10 /\ IsCalendarDate(s)
    \/ Len(s) = 20 /\ IsCalendarDate(s) /\ IsClockTime(s) /\ s[20] = "Z"
    \/ /\ Len(s) = 24 /\ IsCalendarDate(s) /\ IsClockTime(s)
       /\ s[20] = "." /\ AllDigits(SubSeq(s, 21, 23)) /\ s[24] = "Z"

\* new Date(text) of a text isISO8601Date accepts, as its toISOString()
newDate(s) ==
    DateV(CASE Len(s) = 10 ->
                 s \o << "T", "0", "0", ":", "0", "0", ":", "0", "0", ".", "0", "0", "0", "Z" >>
            [] Len(s) = 20 -> SubSeq(s, 1, 19) \o << ".", "0", "0", "0", "Z" >>
            [] OTHER -> s)

(***************************************************************************)
(* normalize (lib/utils/query.ts).  The result is the value returned or    *)
(* Throw(err) for the error thrown.                                        *)
(***************************************************************************)
FnOp == Chars("$function")
AccOp == Chars("$accumulator")

\* const tmp = isObject(text) && !isNull(text) ? JSON.stringify(text) : String(text)
TextForm(text) ==
    IF isObject(text) /\ ~isNull(text) THEN JSONstringify(text) ELSE ToStringJS(text)

GuardRejectsOnlyFunction(tmp) == includes(tmp, FnOp)
\* tmp.includes('$function') || tmp.includes('$accumulator')
GuardRejects(tmp) == includes(tmp, FnOp) \/ includes(tmp, AccOp)

\* text.startsWith('{') && text.endsWith('}') of a string
IsWrapped(text) == isString(text) /\ startsWith(text.s, << "{" >>) /\ endsWith(text.s, << "}" >>)

\* isJSON of a value that is no number, string or array.  A plain object
\* is JSON; whether a Date or null is depends on the validator.
isJSON(v) == v.t = "obj" \/ (jsonLoose /\ v.t \in {"date", "null"})

KeptLiteral(k) == k = Chars("dateString") \/ k = Chars("$regex")

RECURSIVE normalize(_)
RECURSIVE NormalizeItems(_, _, _)
RECURSIVE NormalizeEntries(_, _)

\* text.map(normalize): the first error thrown ends the map
NormalizeItems(items, k, acc) ==
    IF k > Len(items) THEN Arr(acc)
    ELSE LET r == normalize(items[k])
         IN  IF r.t = "throw" THEN r ELSE NormalizeItems(items, k + 1, Append(acc, r))

\* (a variant that type-infers every entry, whatever its key)
RECURSIVE NormalizeEntriesAll(_, _)
NormalizeEntriesAll(o, k) ==
    IF k > Len(o) THEN Obj(o)
    ELSE LET r == normalize(o[k].v)
         IN  IF r.t = "throw" THEN r ELSE NormalizeEntriesAll([o EXCEPT ![k].v = r], k + 1)

\* Object.entries(o).forEach(...) over a parsed mapping o, from entry k on
NormalizeEntries(o, k) ==
    IF k > Len(o) THEN Obj(o)
    ELSE IF KeptLiteral(o[k].k)
         THEN NormalizeEntries([o EXCEPT ![k].v = Str(ToStringJS(o[k].v))], k + 1)
    ELSE LET r == normalize(o[k].v)
         IN  IF r.t = "throw" THEN r ELSE NormalizeEntries([o EXCEPT ![k].v = r], k + 1)

normalize(text) ==
    LET tmp == TextForm(text)
    IN  IF GuardRejects(tmp) THEN Throw("InvalidOperator")
        ELSE IF IsWrapped(text)
             THEN LET parsed == JSONparse(text.s)
                  IN  IF parsed.t = "throw" THEN parsed ELSE normalize(parsed)
        ELSE IF toLowerCase(tmp) = Chars("true") THEN Bool(TRUE)
        ELSE IF toLowerCase(tmp) = Chars("false") THEN Bool(FALSE)
        ELSE IF ~isNaN(tmp) THEN StringToNumber(tmp)
        ELSE IF isISO8601Date(tmp) THEN newDate(tmp)
        ELSE IF isArray(text) THEN NormalizeItems(text.items, 1, << >>)
        ELSE IF ~isNumber(text) /\ ~isString(text) /\ ~isArray(text) /\ isJSON(text)
             THEN LET o == JSONparse(tmp)
                  IN  \* Object.entries(null) and an assignment to a character of a
                      \* string primitive both throw a TypeError
                      IF o.t # "obj" THEN Throw("TypeError")
                      ELSE NormalizeEntries(o.entries, 1)
        ELSE text

(***************************************************************************)
(* findNextPair (lib/utils/query.ts).  Indices are JavaScript's, from 0:   *)
(* text[i] of the code is text[i + 1] here.                                *)
(***************************************************************************)
kStart == { "{", "[" }
kEnd == { "}", "]" }
kKeyAllowedCharacters == Range(LowerCase) \cup Range(UpperCase) \cup Range(Digits) \cup { ".", "$" }
kDelimiter == << ":", "," >>

Pair(startIndex, endIndex, key, value) ==
    [startIndex |-> startIndex, endIndex |-> endIndex, key |-> key, value |-> value]

\* (a variant that ends the pair at the first comma, whatever the depth)
RECURSIVE FindNextPairLoopFlat(_, _, _, _, _)
FindNextPairLoopFlat(text, idx, foundKey, nested, result) ==
    IF ~(idx < Len(text)) THEN result
    ELSE LET char == text[idx + 1]
         IN  IF ~foundKey
             THEN IF char \in kKeyAllowedCharacters
                  THEN FindNextPairLoopFlat(text, idx + 1, FALSE, nested,
                                            [result EXCEPT !.key = @ \o << char >>])
                  ELSE FindNextPairLoopFlat(text, idx + 1, char = kDelimiter[1], nested, result)
             ELSE IF char = kDelimiter[2]
                  THEN [result EXCEPT !.endIndex = idx + 1]
                  ELSE FindNextPairLoopFlat(text, idx + 1, TRUE, nested,
                                            [result EXCEPT !.value = @ \o << char >>])

\* the body of the for loop at index i, and the rest of the loop after it
RECURSIVE FindNextPairLoop(_, _, _, _, _)
FindNextPairLoop(text, idx, foundKey, nested, result) ==
    IF ~(idx < Len(text)) THEN result
    ELSE LET char == text[idx + 1]
         IN  IF ~foundKey
             THEN IF char \in kKeyAllowedCharacters
                  THEN FindNextPairLoop(text, idx + 1, FALSE, nested,
                                        [result EXCEPT !.key = @ \o << char >>])
                  ELSE IF char = kDelimiter[1]
                       THEN FindNextPairLoop(text, idx + 1, TRUE, nested, result)
                       ELSE FindNextPairLoop(text, idx + 1, FALSE, nested, result)
             ELSE LET opened == IF char \in kStart THEN nested + 1 ELSE nested
                      depth == IF char \in kEnd THEN opened - 1 ELSE opened
                  IN  IF depth = 0 /\ char = kDelimiter[2]
                      THEN [result EXCEPT !.endIndex = idx + 1]
                      ELSE FindNextPairLoop(text, idx + 1, TRUE, depth,
                                            [result EXCEPT !.value = @ \o << char >>])

findNextPairEndsAtLength(text, startIndex) ==
    LET r == FindNextPairLoop(text, startIndex, FALSE, 0, Pair(startIndex, 0, << >>, << >>))
    IN  IF r.endIndex = 0 THEN [r EXCEPT !.endIndex = Len(text)] ELSE r

findNextPair(text, startIndex) ==
    FindNextPairLoop(text, startIndex, FALSE, 0, Pair(startIndex, 0, << >>, << >>))

\* transformRegExpSearch (lib/utils/query.ts)
transformRegExpSearch(text) ==
    IF isString(text) /\ ~startsWith(text.s, << "{" >>) /\ ~endsWith(text.s, << "}" >>)
    THEN Obj(<< Entry(Chars("$regex"), text), Entry(<< "$", "o", "p", "t", "i", "o", "n", "s" >>, Str(<< "i" >>)) >>)
    ELSE text

(***************************************************************************)
(* The stage sequence (AggregateBuilder) and the compilers of Controller.  *)
(* A builder is [stages |-> <<...>>]; False is the `false` a compiler      *)
(* returns for "no stage".                                                 *)
(***************************************************************************)
False == Bool(FALSE)
Builder(stages) == [stages |-> stages]
\* builder.match(opt) with opt.$and = arr when arr is not empty, opt = {} otherwise
MatchStage(conds) == [op |-> "$match", and |-> conds]
SortStage(opt) == [op |-> "$sort", by |-> opt]
LimitStage(n) == [op |-> "$limit", n |-> n]
SkipStage(n) == [op |-> "$skip", n |-> n]
NoError == [t |-> "none"]

\* isExist of the validator: neither undefined, null nor the empty string
isExist(v) == v.t \notin {"undefined", "null"} /\ ~(v.t = "str" /\ v.s = << >>)

\* (a variant that does not look at the field list)
SearchedAnyFields(searchArg, fields) ==
    (isString(searchArg) \/ isObject(searchArg)) /\ isExist(searchArg)
\* the test of computePreQuery on the search term and the search fields
Searched(searchArg, fields) ==
    /\ isString(searchArg) \/ isObject(searchArg)
    /\ isExist(searchArg)
    /\ Len(fields) > 0

\* arr.push({ $or: sub }) with one { [field]: normalize(search) } per field
SearchCondition(fields, value) ==
    [or |-> [ k \in 1 .. Len(fields) |-> Entry(fields[k], value) ]]

\* (a variant that consults the first keyword only)
PreShouldAddFirstOnly(key, keywords, j, shouldAdd) ==
    IF Len(keywords) = 0 THEN shouldAdd ELSE ~includes(key, keywords[1])

\* the keyword loop of computePreQuery: false once a keyword is part of the key
RECURSIVE PreShouldAdd(_, _, _, _)
PreShouldAdd(key, keywords, j, shouldAdd) ==
    IF ~(j < Len(keywords)) \/ ~shouldAdd THEN shouldAdd
    ELSE PreShouldAdd(key, keywords, j + 1, ~includes(key, keywords[j + 1]))

\* the keyword loop of computePostQuery: true once a keyword is part of the key
RECURSIVE PostShouldAdd(_, _, _, _)
PostShouldAdd(key, keywords, j, shouldAdd) ==
    IF ~(j < Len(keywords)) \/ shouldAdd THEN shouldAdd
    ELSE PostShouldAdd(key, keywords, j + 1, includes(key, keywords[j + 1]))

\* if (!filter.endsWith(',')) filter += ','
WithComma(s) == IF endsWith(s, << "," >>) THEN s ELSE s \o << "," >>

\* String.prototype.split(',')
RECURSIVE SplitFrom(_, _, _)
SplitFrom(s, p, cur) ==
    IF p > Len(s) THEN << cur >>
    ELSE IF s[p] = "," THEN << cur >> \o SplitFrom(s, p + 1, << >>)
    ELSE SplitFrom(s, p + 1, cur \o << s[p] >>)
split(s) == SplitFrom(s, 1, << >>)

\* o.replace(c, ''): the first occurrence of the character c is removed
replaceFirst(s, c) ==
    IF \E k \in 1 .. Len(s) : s[k] = c
    THEN LET k == CHOOSE k \in 1 .. Len(s) : s[k] = c /\ \A m \in 1 .. (k - 1) : s[m] # c
         IN  SubSeq(s, 1, k - 1) \o SubSeq(s, k + 1, Len(s))
    ELSE s

\* opt[key] = order of a mapping kept as <<[k, order]>>
SortSet(opt, key, order) ==
    IF \E n \in 1 .. Len(opt) : opt[n].k = key
    THEN [ n \in 1 .. Len(opt) |-> IF opt[n].k = key THEN [k |-> key, order |-> order] ELSE opt[n] ]
    ELSE Append(opt, [k |-> key, order |-> order])

RECURSIVE SortEach(_, _, _)
SortEach(tokens, n, opt) ==
    IF n > Len(tokens) THEN opt
    ELSE LET o == tokens[n]
             orderKey == IF startsWith(o, << "-" >>) THEN "-" ELSE "+"
             key == trim(replaceFirst(o, orderKey))
             order == IF orderKey = "-" THEN 0 - 1 ELSE 1
         IN  SortEach(tokens, n + 1, IF isExist(Str(key)) THEN SortSet(opt, key, order) ELSE opt)

computeSort(sortArg) ==
    IF isString(sortArg)
    THEN Builder(<< SortStage(SortEach(split(sortArg.s), 1, << >>)) >>)
    ELSE False

\* (a variant that adds the skip stage before the limit stage)
computeOptionSkipFirst(pageArg, pageSizeArg) ==
    IF pageArg.t # "undefined" /\ pageSizeArg.t # "undefined"
    THEN LET skip == IF pageArg.n > 0 THEN (pageArg.n - 1) * pageSizeArg.n ELSE 0
         IN  Builder(<< SkipStage(skip), LimitStage(pageSizeArg.n + skip) >>)
    ELSE False

\* (a variant that limits to pageSize rows before it skips)
computeOptionLimitPageSize(pageArg, pageSizeArg) ==
    IF pageArg.t # "undefined" /\ pageSizeArg.t # "undefined"
    THEN LET skip == IF pageArg.n > 0 THEN (pageArg.n - 1) * pageSizeArg.n ELSE 0
         IN  Builder(<< LimitStage(pageSizeArg.n), SkipStage(skip) >>)
    ELSE False

\* (a variant that skips page * pageSize rows)
computeOptionFromPage(pageArg, pageSizeArg) ==
    IF pageArg.t # "undefined" /\ pageSizeArg.t # "undefined"
    THEN LET skip == IF pageArg.n > 0 THEN pageArg.n * pageSizeArg.n ELSE 0
         IN  Builder(<< LimitStage(pageSizeArg.n + skip), SkipStage(skip) >>)
    ELSE False

computeOption(pageArg, pageSizeArg) ==
    IF pageArg.t # "undefined" /\ pageSizeArg.t # "undefined"
    THEN LET skip == IF pageArg.n > 0 THEN (pageArg.n - 1) * pageSizeArg.n ELSE 0
         IN  Builder(<< LimitStage(pageSizeArg.n + skip), SkipStage(skip) >>)
    ELSE False

ConcatSortBeforeBuilt(pre, built, s, p) ==
    pre.stages
        \o (IF s # False THEN s.stages ELSE << >>)
        \o built
        \o (IF p # False THEN p.stages ELSE << >>)
\* computePipeline up to the call of computePostQuery: the stages of
\* computePreQuery, then the concat of buildAggregateBuilder, of s and of p
ConcatPipeline(pre, built, s, p) ==
    pre.stages
        \o built
        \o (IF s # False THEN s.stages ELSE << >>)
        \o (IF p # False THEN p.stages ELSE << >>)

\* (a variant without the test of arr.length)
PostQueryResultAlways(conds) == Builder(<< MatchStage(conds) >>)
\* the end of computePostQuery: false when arr is empty, else builder.match(opt)
PostQueryResult(conds) ==
    IF Len(conds) > 0 THEN Builder(<< MatchStage(conds) >>) ELSE False

\* if (q !== false) builder.concat(q)
ConcatPostQuery(stages, q) == IF q # False THEN stages \o q.stages ELSE stages

(***************************************************************************)
(* Inputs.                                                                 *)
(***************************************************************************)
FilterAlphabet == { "a", "b", ":", ",", "{", "}" }
ExampleFilter == << "a", ":", "1", ",", "b", ":", "{", "c", ":", "2", ",", "d", ":", "3", "}", ",", "e", ":", "5", "," >>
NameStatusFilter == << "n", "a", "m", "e", ":", "x", ",", "s", "t", "a", "t", "u", "s", ":", "a", "c", "t", "i", "v", "e", "," >>
StatusFilter == << "s", "t", "a", "t", "u", "s", ":", "a", "c", "t", "i", "v", "e", "," >>
JsonValueFilter == << "a", ":", "{", "\"", "b", "\"", ":", "[", "1", ",", "n", "u", "l", "l", "]", "}", ",", "a", "b", ":", "t", "r", "u", "e" >>
EmptyValueFilter == << "a", ":", ",", "c", ":", "1" >>
MalformedTailFilter == << "a", ":", "{", "b", "}", ",", "b" >>
OperatorValueFilter == << "a", "b", ":" >> \o Chars("$function") \o << ",", "b", ":", "1" >>
ThreePairFilter == << "a", ":", "1", ",", "c", ":", "2", ",", "b", ":", "x" >>
OperatorKeyFilter == Chars("$function") \o << ":", "1" >>
SampleFilters ==
    { ExampleFilter, NameStatusFilter, StatusFilter, JsonValueFilter, EmptyValueFilter,
      MalformedTailFilter, OperatorValueFilter, ThreePairFilter, OperatorKeyFilter }
Filters == StringsUpTo(FilterAlphabet, MaxFilterLen) \cup SampleFilters

TxtStatus == << "s", "t", "a", "t", "u", "s" >>
TxtName == << "n", "a", "m", "e" >>
TxtEmail == << "e", "m", "a", "i", "l" >>
TxtBob == << "b", "o", "b" >>
Txt123 == << "1", "2", "3" >>
KeywordLists == { << >>, << << "a" >> >>, << << "b" >>, << "a" >> >>, << TxtStatus >> }

Custom(id) == [op |-> "custom", id |-> id]
Transforms == { << >>, << Custom(1), Custom(2) >> }
TxtBraceBob == << "{" >> \o TxtBob
TxtJsonName == << "{", "\"", "n", "a", "m", "e", "\"", ":", "\"", "b", "o", "b", "\"", "}" >>
Searches ==
    { Undefined, Str(TxtBob), Str(<< >>), Str(Txt123), Str(TxtBraceBob), Str(TxtJsonName),
      Num(5), Obj(<< Entry(TxtName, Str(TxtBob)) >>) }
FieldLists == { << >>, << TxtName, TxtEmail >> }
TxtCreatedAt == << "c", "r", "e", "a", "t", "e", "d", "A", "t" >>
Sorts == { Undefined, Str(<< "-", "c", "r", "e", "a", "t", "e", "d", "A", "t" >>), Str(<< "n", "a", "m", "e", ",", "-", "a", "g", "e" >>) }
SortAlphabet == { "a", "b", "-", "+", ",", " " }
SortStrings == { Str(w) : w \in StringsUpTo(SortAlphabet, MaxSortLen) }
Pages == { Undefined, Num(0), Num(1), Num(2) }
PageSizes == { Undefined, Num(5), Num(10) }
PageNumbers == { Undefined } \cup { Num(n) : n \in (0 - 1) .. MaxPage }
PageLengths == { Undefined, Num(10) } \cup { Num(n) : n \in 0 .. MaxPageSize }

\* texts given to normalize
FreeAlphabet == { "a", "1", "-", " ", "{", "}" }
PadAlphabet == { " ", "a", "{", "}" }
TxtHello == << "h", "e", "l", "l", "o" >>
TxtUpperFalse == << "F", "A", "L", "S", "E" >>
TxtMixedTrue == << "T", "r", "u", "e" >>
Txt42 == << "4", "2" >>
TxtNearMiss == << "$", "f", "u", "n", "c", "t", "i", "o" >>
TxtInstant == << "2", "0", "2", "3", "-", "0", "1", "-", "0", "1", "T", "0", "0", ":", "0", "0", ":", "0", "0", "Z" >>
TxtDay == << "2", "0", "2", "3", "-", "0", "1", "-", "0", "1" >>
TxtJsonA == << "{", "\"", "a", "\"", ":", "\"", "1", "\"", ",", "\"", "b", "\"", ":", "[", "\"", "t", "r", "u", "e", "\"", ",", "{", "\"", "c", "\"", ":", "\"", "x", "\"", "}", "]", "}" >>
TxtJsonRegex == << "{", "\"", "$", "r", "e", "g", "e", "x", "\"", ":", "\"", "1", "2", "3", "\"", ",", "\"", "n", "\"", ":", "n", "u", "l", "l", "}" >>
TxtJsonOp == << "{", "\"", "a", "\"", ":", "{", "\"", "$", "a", "c", "c", "u", "m", "u", "l", "a", "t", "o", "r", "\"", ":", "1", "}", "}" >>
TxtJsonDate == << "{", " ", "\"", "d", "\"", " ", ":", " ", "\"", "2", "0", "2", "3", "-", "0", "1", "-", "0", "1", "T", "0", "0", ":", "0", "0", ":", "0", "0", "Z", "\"", " ", "}" >>
TxtNotJson == << "{", "c", ":", "2", ",", "d", ":", "3", "}" >>
TxtJsonKept == << "{", "\"", "$", "r", "e", "g", "e", "x", "\"", ":", "1", "2", "3", ",", "\"", "d", "a", "t", "e", "S", "t", "r", "i", "n", "g", "\"", ":", "t", "r", "u", "e", ",", "\"", "n", "\"", ":", "\"", "1", "2", "3", "\"", "}" >>
Fragments ==
    { Chars("true"), Chars("false"), TxtUpperFalse, TxtMixedTrue, Txt42, TxtHello,
      Chars("Infinity"), FnOp, AccOp, TxtNearMiss, Chars("null") }
Pads == StringsUpTo(PadAlphabet, MaxPad)
Padded == { l \o w \o r : l \in Pads, w \in Fragments, r \in Pads }
FreeStrings == StringsUpTo(FreeAlphabet, MaxFreeLen)
Words == Fragments \cup FreeStrings \cup { TxtInstant, TxtDay }

\* structured values around a word: as an item, a value, a key, a pattern
Around(w) ==
    { Arr(<< Str(w) >>),
      Arr(<< Num(1), Arr(<< Str(w) >>) >>),
      Obj(<< Entry(<< "a" >>, Str(w)) >>),
      Obj(<< Entry(<< "k" >> \o w, Num(1)) >>),
      Obj(<< Entry(Chars("$regex"), Str(w)), Entry(<< "n" >>, Num(123)) >>),
      Obj(<< Entry(<< "a" >>, Arr(<< Obj(<< Entry(Chars("dateString"), Str(w)) >>) >>)) >>) }
Structured == UNION { Around(w) : w \in Words }
Scalars ==
    { Bool(TRUE), Bool(FALSE), Num(0), Num(42), Num(0 - 7), Inf(1), Null,
      DateV(<< "2", "0", "2", "3", "-", "0", "1", "-", "0", "1", "T", "0", "0", ":", "0", "0", ":", "0", "0", ".", "0", "0", "0", "Z" >>) }
Texts ==
    FreeStrings \cup Padded
        \cup { TxtInstant, TxtDay, TxtJsonA, TxtJsonRegex, TxtJsonOp, TxtJsonDate, TxtNotJson,
               TxtJsonKept }
        \cup { JSONstringify(v) : v \in Structured }
NormalizeInputs == { Str(w) : w \in Texts } \cup Structured \cup Scalars

(***************************************************************************)
(* The Controller's collection: the constructor and the collection setter. *)
(* this[kPrivate] is Undefined until the constructor creates it.           *)
(***************************************************************************)
\* isEmpty of @kakang/validator: undefined, null, and a string, an array or
\* an object without content
isEmpty(v) ==
    \/ v.t \in {"undefined", "null"}
    \/ v.t = "str" /\ v.s = << >>
    \/ v.t = "arr" /\ v.items = << >>
    \/ v.t = "obj" /\ v.entries = << >>

Private(collection) == [t |-> "private", collection |-> collection]

\* a setter that stores whatever it is given
setCollectionUnguarded(private, collection) ==
    [private |-> Private(collection), thrown |-> FALSE]
\* set collection (collection)
setCollection(private, collection) ==
    IF isEmpty(collection) THEN [private |-> private, thrown |-> TRUE]
    ELSE [private |-> Private(collection), thrown |-> FALSE]

\* constructor (collection, options): the guard, super(), this[kPrivate]
\* with a null collection, then the setter
constructor(collection) ==
    IF isEmpty(collection) THEN [private |-> Undefined, thrown |-> TRUE]
    ELSE setCollection(Private(Null), collection)

CollectionNamed(name) == Obj(<< Entry(<< "s" >>, Str(name)) >>)
CollectionValues ==
    { Undefined, Null, Obj(<< >>), CollectionNamed(<< "a" >>), CollectionNamed(<< "b" >>) }

NoController == [private |-> Undefined, thrown |-> FALSE, assigned |-> << >>]

(***************************************************************************)
(* The collection behind the write operations.  A document is its id and   *)
(* a revision: 1 as first stored, 2 once updated; documents[id] = 0 when   *)
(* no document has the id.  A filter is the set of ids it matches.         *)
(***************************************************************************)
Callers == { "first", "second" }
Stored == 1 .. MaxDocuments
\* the ids appendBasicSchema gives the documents a caller inserts
Reserved(p) ==
    IF p = "first" THEN { MaxDocuments + 1, MaxDocuments + 2 } ELSE { MaxDocuments + 3 }
Ids == 1 .. MaxDocuments + 3
Everything == Ids          \* the filter {}

Doc(id, rev) == [id |-> id, rev |-> rev]
Matching(docs, flt) == { id \in flt : docs[id] # 0 }
Lowest(S) == CHOOSE x \in S : \A y \in S : x <= y
Ascending(S) ==
    [k \in 1 .. Cardinality(S) |-> CHOOSE x \in S : Cardinality({ y \in S : y < x }) = k - 1]

\* collection.findOne(filter): the first match in natural order, or null
findOne(docs, flt) ==
    IF Matching(docs, flt) = { } THEN Null
    ELSE Doc(Lowest(Matching(docs, flt)), docs[Lowest(Matching(docs, flt))])
\* collection.find(filter).toArray()
find(docs, flt) ==
    [k \in 1 .. Cardinality(Matching(docs, flt)) |->
        Doc(Ascending(Matching(docs, flt))[k], docs[Ascending(Matching(docs, flt))[k]])]

\* collection.insertOne(doc), collection.insertMany(doc): ids holds doc's ids
insertMany(docs, ids) == [id \in Ids |-> IF id \in ids THEN 1 ELSE docs[id]]
\* collection.updateMany(filter, {$set: doc}), collection.updateOne(...)
updateMany(docs, flt) == [id \in Ids |-> IF id \in Matching(docs, flt) THEN 2 ELSE docs[id]]
updateOne(docs, flt) ==
    IF Matching(docs, flt) = { } THEN docs
    ELSE updateMany(docs, { Lowest(Matching(docs, flt)) })
\* collection.deleteMany(filter), collection.deleteOne(filter)
deleteMany(docs, flt) == [id \in Ids |-> IF id \in flt THEN 0 ELSE docs[id]]
deleteOne(docs, flt) ==
    IF Matching(docs, flt) = { } THEN docs
    ELSE deleteMany(docs, { Lowest(Matching(docs, flt)) })

(***************************************************************************)
(* The write operations of Controller.  Every await of an operation is one *)
(* step; Program(op) lists the steps in the order the code takes them.     *)
(***************************************************************************)
Inserts == { "insertOne", "insertMany" }
Updates == { "updateOne", "updateMany", "updateById" }
Deletes == { "deleteOne", "deleteMany", "deleteById" }
Operations == Inserts \cup Updates \cup Deletes
IsMany(op) == op \in { "insertMany", "updateMany", "deleteMany" }

\* a caller whose operation performs the collection write before its
\* operation-specific pre event
ProgramWriteFirst(op) ==
    CASE op \in Inserts -> << "pre", "write", "preOp", "find", "postOp", "post" >>
      [] op \in { "updateOne", "updateMany" } ->
            << "pre", "findBefore", "write", "preOp", "find", "postOp", "post" >>
      [] op = "updateById" -> << "pre", "write", "preOp", "find", "postOp", "post" >>
      [] op \in Deletes -> << "pre", "find", "write", "preOp", "postOp", "post" >>
      [] OTHER -> << >>
Program(op) ==
    CASE op \in Inserts -> << "pre", "preOp", "write", "find", "postOp", "post" >>
      [] op \in { "updateOne", "updateMany" } ->
            << "pre", "preOp", "findBefore", "write", "find", "postOp", "post" >>
      [] op = "updateById" -> << "pre", "preOp", "write", "find", "postOp", "post" >>
      [] op \in Deletes -> << "pre", "find", "preOp", "write", "postOp", "post" >>
      [] OTHER -> << >>

Family(op) ==
    IF op \in Inserts THEN "insert" ELSE IF op \in Updates THEN "update" ELSE "delete"
\* 'pre-insert', 'post-delete', ...: the events shared by a family
GenericEvent(phase, op) == [phase |-> phase, family |-> Family(op), op |-> "any"]
\* 'pre-insert-one', 'post-delete-by-id', ...: the events of one operation
OperationEvent(phase, op) == [phase |-> phase, family |-> Family(op), op |-> op]
Written == [phase |-> "write", family |-> "none", op |-> "none"]

Call(op, flt, docs) ==
    [op |-> op, filter |-> flt, pc |-> 1, state |-> "running", o |-> Undefined,
     result |-> Undefined, log |-> << >>, removed |-> { }, error |-> NoError,
     before |-> docs]
IdleCall(docs) == [Call("idle", { }, docs) EXCEPT !.state = "idle"]
Step(c) == IF c.state = "running" THEN Program(c.op)[c.pc] ELSE "none"
Advance(c) ==
    [c EXCEPT !.pc = @ + 1,
              !.state = IF c.pc = Len(Program(c.op)) THEN "returned" ELSE "running"]

\* an emitter that swallows what a listener throws
EmittedIgnoringFailure(c, event, payload, ok) ==
    Advance([c EXCEPT !.log = Append(@, [event |-> event, result |-> payload, ok |-> ok])])
\* await this.emit(event, ...): every listener returned (ok), or one threw
\* and the operation rejects with its error
Emitted(c, event, payload, ok) ==
    IF ok THEN Advance([c EXCEPT !.log = Append(@, [event |-> event, result |-> payload, ok |-> ok])])
    ELSE [c EXCEPT !.log = Append(@, [event |-> event, result |-> payload, ok |-> ok]),
                   !.state = "failed", !.error = Throw(event)]
\* the collection write of an operation returned
Wrote(c, gone) ==
    Advance([c EXCEPT !.log = Append(@, [event |-> Written, result |-> Undefined, ok |-> TRUE]),
                      !.removed = gone])

\* the filter of the read that produces an operation's result
ResultFilter(c) ==
    CASE c.op = "updateOne" -> IF c.o = Null THEN { } ELSE { c.o.id }
      [] c.op = "updateMany" -> { c.o[k].id : k \in 1 .. Len(c.o) }
      [] OTHER -> c.filter
Read(op, docs, flt) == IF IsMany(op) THEN find(docs, flt) ELSE findOne(docs, flt)

NoDocuments == [id \in Ids |-> 0]
InitialDocuments ==
    { [id \in Ids |-> IF id \in present THEN 1 ELSE 0] : present \in SUBSET Stored }
WriteFilters == { { 1 }, Stored, Everything }
\* the arguments of an operation, as the filter its steps use
Arguments(op, p) ==
    CASE op = "insertOne" -> { { Lowest(Reserved(p)) } }
      [] op = "insertMany" -> { Reserved(p) }
      [] op \in { "updateById", "deleteById" } -> { { 1 } }
      [] OTHER -> WriteFilters
CallsOf(ops, p, docs) ==
    UNION { { Call(op, flt, docs) : flt \in Arguments(op, p) } : op \in ops }
\* the operations a second caller runs while the first one's is under way
Concurrent == { "insertOne", "updateMany", "deleteOne", "deleteMany", "deleteById" }

(***************************************************************************)
(* Initial states: one call of normalize, of findNextPair or of            *)
(* computePipeline, on arguments drawn from the sets above.                *)
(***************************************************************************)
NoPair == Pair(0, 0, << >>, << >>)
NoProduced == [pre |-> << >>, built |-> << >>, sort |-> << >>, page |-> << >>, post |-> << >>]

IdleLocals ==
    /\ pc = "start" /\ arr = << >> /\ calls = 0 /\ starts = << >> /\ last = NoPair
    /\ preScan = << >> /\ postScan = << >> /\ preArr = << >> /\ postArr = << >>
    /\ builder = << >> /\ produced = NoProduced /\ error = NoError
    /\ nResult = NoError /\ nAgain = NoError /\ nPhase = "ready"

IdleWrites ==
    /\ controller = NoController /\ documents = NoDocuments
    /\ call = [p \in Callers |-> IdleCall(NoDocuments)]

DefaultOptions ==
    /\ search = Undefined /\ searchFields = << >> /\ autoRegExpSearch = TRUE
    /\ sort = Undefined /\ page = Undefined /\ pageSize = Undefined /\ transform = << >>

InitNormalize ==
    /\ mode = "normalize"
    /\ nInput \in NormalizeInputs
    /\ jsonLoose \in BOOLEAN
    /\ filter = Undefined /\ postMatchKeywords = << >> /\ f = << >> /\ i = 0
    /\ DefaultOptions

InitTokenize ==
    /\ mode = "tokenize"
    /\ f \in Filters
    /\ i \in 0 .. Len(f)
    /\ nInput = Undefined /\ jsonLoose = FALSE
    /\ filter = Undefined /\ postMatchKeywords = << >>
    /\ DefaultOptions

\* every short filter under the default options (no value of these filters
\* is or holds a Date or null, so jsonLoose is not read)
InitPipelineFilters ==
    /\ filter \in { Str(w) : w \in Filters }
    /\ jsonLoose = FALSE
    /\ DefaultOptions

ScenarioFilters ==
    { Undefined, Obj(<< Entry(<< "a" >>, Num(1)) >>) } \cup { Str(w) : w \in SampleFilters }

\* the sample filters under every search option
InitPipelineSearch ==
    /\ filter \in ScenarioFilters
    /\ jsonLoose \in BOOLEAN
    /\ search \in Searches
    /\ searchFields \in FieldLists
    /\ autoRegExpSearch \in BOOLEAN
    /\ sort = Undefined /\ page = Undefined /\ pageSize = Undefined /\ transform = << >>

\* the sample filters under every sort, page and transformation
InitPipelineStages ==
    /\ filter \in ScenarioFilters
    /\ jsonLoose \in BOOLEAN
    /\ search = Str(TxtBob) /\ searchFields = << TxtName, TxtEmail >>
    /\ autoRegExpSearch = TRUE
    /\ sort \in Sorts
    /\ page \in Pages
    /\ pageSize \in PageSizes
    /\ transform \in Transforms

\* every short sort string, with nothing else to compile
InitPipelineSorts ==
    /\ sort \in SortStrings
    /\ filter = Undefined /\ jsonLoose = FALSE
    /\ search = Undefined /\ searchFields = << >> /\ autoRegExpSearch = TRUE
    /\ page = Undefined /\ pageSize = Undefined /\ transform = << >>

\* every small page and page size, with nothing else to compile
InitPipelinePages ==
    /\ page \in PageNumbers
    /\ pageSize \in PageLengths
    /\ filter = Undefined /\ jsonLoose = FALSE
    /\ search = Undefined /\ searchFields = << >> /\ autoRegExpSearch = TRUE
    /\ sort = Undefined /\ transform = << >>

InitPipeline ==
    /\ mode = "pipeline"
    /\ nInput = Undefined
    /\ f = << >> /\ i = 0
    /\ postMatchKeywords \in KeywordLists
    /\ \/ InitPipelineFilters \/ InitPipelineSearch \/ InitPipelineStages
       \/ InitPipelineSorts \/ InitPipelinePages

Init == IdleLocals /\ IdleWrites /\ (InitNormalize \/ InitTokenize \/ InitPipeline)

(***************************************************************************)
(* Actions.                                                                *)
(***************************************************************************)
writeVars == << controller, documents, call >>
argVars == << mode, search, filter, sort, page, pageSize, searchFields,
              postMatchKeywords, autoRegExpSearch, transform, nInput, jsonLoose >>
normalizeVars == << nResult, nAgain, nPhase >>
pipelineVars == << pc, f, i, arr, calls, starts, last, preScan, postScan, preArr,
                   postArr, builder, produced, error >>

\* normalize(nInput)
Normalize ==
    /\ mode = "normalize" /\ nPhase = "ready"
    /\ nResult' = normalize(nInput)
    /\ nPhase' = "once"
    /\ UNCHANGED << writeVars, argVars, pipelineVars, nAgain >>

\* normalize(normalize(nInput)), when the first call returned
NormalizeAgain ==
    /\ mode = "normalize" /\ nPhase = "once" /\ nResult.t # "throw"
    /\ nAgain' = normalize(nResult)
    /\ nPhase' = "twice"
    /\ UNCHANGED << writeVars, argVars, pipelineVars, nResult >>

\* findNextPair(f, i)
FindNextPair ==
    /\ mode = "tokenize" /\ pc = "start"
    /\ last' = findNextPair(f, i)
    /\ calls' = calls + 1
    /\ pc' = "done"
    /\ UNCHANGED << writeVars, argVars, normalizeVars, f, i, arr, starts, preScan, postScan,
                    preArr, postArr, builder, produced, error >>

\* computePipeline enters computePreQuery: the search condition, then the
\* head of the filter loop
ComputePreQuery ==
    /\ mode = "pipeline" /\ pc = "start"
    /\ LET searched == Searched(search, searchFields)
           term == IF autoRegExpSearch THEN transformRegExpSearch(search) ELSE search
           value == normalize(term)
       IN  IF searched /\ value.t = "throw"
           THEN /\ pc' = "error" /\ error' = value
                /\ UNCHANGED << f, i, arr >>
           ELSE /\ arr' = IF searched THEN << SearchCondition(searchFields, value) >> ELSE << >>
                /\ error' = error
                /\ IF isString(filter)
                   THEN f' = WithComma(filter.s) /\ i' = 0 /\ pc' = "preLoop"
                   ELSE pc' = "assemble" /\ UNCHANGED << f, i >>
    /\ UNCHANGED << writeVars, argVars, normalizeVars, calls, starts, last, preScan, postScan,
                    preArr, postArr, builder, produced >>

\* one pass of the for loop of a classifier: the test of i, findNextPair, the
\* sentinel test, the keyword loop, the push, and i = endIndex - 1 with the i++
LoopPass(isPost, scan, pushed, after) ==
    IF ~(i <= Len(f))
    THEN /\ pc' = after
         /\ UNCHANGED << i, arr, calls, starts, last, scan, pushed, error >>
    ELSE LET r == findNextPair(f, i)
         IN  /\ calls < MaxCalls
             /\ calls' = calls + 1
             /\ starts' = Append(starts, i)
             /\ last' = r
             /\ IF r.key = << >> /\ r.value = << >>
                THEN /\ pc' = after
                     /\ UNCHANGED << i, arr, scan, pushed, error >>
                ELSE LET shouldAdd == IF isPost
                                      THEN PostShouldAdd(r.key, postMatchKeywords, 0, FALSE)
                                      ELSE PreShouldAdd(r.key, postMatchKeywords, 0, TRUE)
                         value == normalize(Str(r.value))
                     IN  /\ scan' = Append(scan, r)
                         /\ IF shouldAdd /\ value.t = "throw"
                            THEN /\ pc' = "error" /\ error' = value
                                 /\ UNCHANGED << i, arr, pushed >>
                            ELSE /\ arr' = IF shouldAdd THEN Append(arr, Entry(r.key, value))
                                                        ELSE arr
                                 /\ pushed' = IF shouldAdd THEN Append(pushed, r) ELSE pushed
                                 /\ i' = (r.endIndex - 1) + 1
                                 /\ UNCHANGED << pc, error >>

PreQueryLoop ==
    /\ mode = "pipeline" /\ pc = "preLoop"
    /\ LoopPass(FALSE, preScan, preArr, "assemble")
    /\ UNCHANGED << writeVars, argVars, normalizeVars, f, postScan, postArr, builder, produced >>

\* the end of computePreQuery, buildAggregateBuilder, computeSort and
\* computeOption with their concat, and the head of computePostQuery
Assemble ==
    /\ mode = "pipeline" /\ pc = "assemble"
    /\ LET pre == Builder(<< MatchStage(arr) >>)
           s == computeSort(sort)
           p == computeOption(page, pageSize)
       IN  /\ builder' = ConcatPipeline(pre, transform, s, p)
           /\ produced' = [produced EXCEPT !.pre = pre.stages, !.built = transform,
                              !.sort = IF s # False THEN s.stages ELSE << >>,
                              !.page = IF p # False THEN p.stages ELSE << >>]
    /\ arr' = << >> /\ calls' = 0 /\ starts' = << >>
    /\ IF isString(filter)
       THEN f' = WithComma(filter.s) /\ i' = 0 /\ pc' = "postLoop"
       ELSE pc' = "postEnd" /\ UNCHANGED << f, i >>
    /\ UNCHANGED << writeVars, argVars, normalizeVars, last, preScan, postScan, preArr, postArr, error >>

PostQueryLoop ==
    /\ mode = "pipeline" /\ pc = "postLoop"
    /\ LoopPass(TRUE, postScan, postArr, "postEnd")
    /\ UNCHANGED << writeVars, argVars, normalizeVars, f, preScan, preArr, builder, produced >>

\* the end of computePostQuery and of computePipeline
ComputePostQueryEnd ==
    /\ mode = "pipeline" /\ pc = "postEnd"
    /\ LET q == PostQueryResult(arr)
       IN  /\ builder' = ConcatPostQuery(builder, q)
           /\ produced' = [produced EXCEPT !.post = IF q # False THEN q.stages ELSE << >>]
    /\ pc' = "done"
    /\ UNCHANGED << writeVars, argVars, normalizeVars, f, i, arr, calls, starts, last, preScan,
                    postScan, preArr, postArr, error >>

Next ==
    \/ Normalize
    \/ NormalizeAgain
    \/ FindNextPair
    \/ ComputePreQuery
    \/ PreQueryLoop
    \/ Assemble
    \/ PostQueryLoop
    \/ ComputePostQueryEnd

Spec == Init /\ [][Next]_vars

(***************************************************************************)
(* Second specification: one Controller's collection under construction    *)
(* and assignment, and the write operations of two concurrent callers on   *)
(* one collection.  The callers' steps interleave at every await.          *)
(***************************************************************************)
IdleArguments ==
    /\ DefaultOptions /\ filter = Undefined /\ postMatchKeywords = << >>
    /\ f = << >> /\ i = 0 /\ nInput = Undefined /\ jsonLoose = FALSE

InitCollection == mode = "collection" /\ IdleWrites

InitWrites ==
    /\ mode = "write"
    /\ controller = [private |-> Private(CollectionNamed(<< "a" >>)), thrown |-> FALSE,
                     assigned |-> << CollectionNamed(<< "a" >>) >>]
    /\ documents \in InitialDocuments
    /\ call \in { [p \in Callers |-> IF p = "first" THEN a ELSE b] :
                    a \in CallsOf(Operations, "first", documents),
                    b \in { IdleCall(documents) } \cup CallsOf(Concurrent, "second", documents) }

WriteInit == IdleLocals /\ IdleArguments /\ (InitCollection \/ InitWrites)

otherVars == << argVars, normalizeVars, pipelineVars >>

\* new Controller(c)
Construct ==
    /\ mode = "collection" /\ controller.assigned = << >>
    /\ \E c \in CollectionValues :
          controller' = [private |-> constructor(c).private, thrown |-> constructor(c).thrown,
                         assigned |-> << c >>]
    /\ UNCHANGED << documents, call, otherVars >>

\* controller.collection = c
SetCollection ==
    /\ mode = "collection" /\ controller.private # Undefined
    /\ Len(controller.assigned) < MaxAssignments
    /\ \E c \in CollectionValues :
          controller' = [private |-> setCollection(controller.private, c).private,
                         thrown |-> setCollection(controller.private, c).thrown,
                         assigned |-> Append(controller.assigned, c)]
    /\ UNCHANGED << documents, call, otherVars >>

\* await this.emit('pre-insert' | 'pre-update' | 'pre-delete', ...)
EmitPre ==
    /\ mode = "write"
    /\ \E p \in Callers, ok \in BOOLEAN :
          /\ Step(call[p]) = "pre"
          /\ call' = [call EXCEPT ![p] =
                        Emitted(call[p], GenericEvent("pre", call[p].op), Undefined, ok)]
    /\ UNCHANGED << controller, documents, otherVars >>

\* appendBasicSchema / appendUpdateSchema, then
\* await this.emit('pre-insert-one' | ... | 'pre-delete-by-id', ...)
EmitOperationPre ==
    /\ mode = "write"
    /\ \E p \in Callers, ok \in BOOLEAN :
          /\ Step(call[p]) = "preOp"
          /\ call' = [call EXCEPT ![p] =
                        Emitted(call[p], OperationEvent("pre", call[p].op), Undefined, ok)]
    /\ UNCHANGED << controller, documents, otherVars >>

\* const result = await this.collection.findOne(filter) | find(filter).toArray()
\* of the delete operations
DeleteFind ==
    /\ mode = "write"
    /\ \E p \in Callers :
          /\ Step(call[p]) = "find" /\ call[p].op \in Deletes
          /\ call' = [call EXCEPT ![p] =
                        Advance([call[p] EXCEPT
                                    !.result = Read(call[p].op, documents, call[p].filter)])]
    /\ UNCHANGED << controller, documents, otherVars >>

\* const o = await this.collection.findOne(filter) | find(filter).toArray()
FindBefore ==
    /\ mode = "write"
    /\ \E p \in Callers :
          /\ Step(call[p]) = "findBefore"
          /\ call' = [call EXCEPT ![p] =
                        Advance([call[p] EXCEPT
                                    !.o = Read(call[p].op, documents, call[p].filter)])]
    /\ UNCHANGED << controller, documents, otherVars >>

\* await this.collection.insertOne(doc) | insertMany(doc)
InsertWrite ==
    /\ mode = "write"
    /\ \E p \in Callers :
          /\ Step(call[p]) = "write" /\ call[p].op \in Inserts
          /\ documents' = insertMany(documents, call[p].filter)
          /\ call' = [call EXCEPT ![p] = Wrote(call[p], { })]
    /\ UNCHANGED << controller, otherVars >>

\* await this.collection.updateOne(filter, ...) | updateMany(filter, ...)
UpdateWrite ==
    /\ mode = "write"
    /\ \E p \in Callers :
          /\ Step(call[p]) = "write" /\ call[p].op \in Updates
          /\ documents' = IF IsMany(call[p].op) THEN updateMany(documents, call[p].filter)
                          ELSE updateOne(documents, call[p].filter)
          /\ call' = [call EXCEPT ![p] = Wrote(call[p], { })]
    /\ UNCHANGED << controller, otherVars >>

\* await this.collection.deleteOne(filter) | deleteMany(filter); removed
\* keeps the documents this very call took out of the collection
DeleteWrite ==
    /\ mode = "write"
    /\ \E p \in Callers :
          /\ Step(call[p]) = "write" /\ call[p].op \in Deletes
          /\ documents' = IF IsMany(call[p].op) THEN deleteMany(documents, call[p].filter)
                          ELSE deleteOne(documents, call[p].filter)
          /\ call' = [call EXCEPT ![p] =
                        Wrote(call[p], { Doc(id, documents[id]) :
                                            id \in { x \in Ids : documents[x] # 0 /\ documents'[x] = 0 } })]
    /\ UNCHANGED << controller, otherVars >>

\* const result = await this.collection.findOne(...) | find(...).toArray()
\* of the insert and update operations
FindResult ==
    /\ mode = "write"
    /\ \E p \in Callers :
          /\ Step(call[p]) = "find" /\ call[p].op \notin Deletes
          /\ call' = [call EXCEPT ![p] =
                        Advance([call[p] EXCEPT
                                    !.result = Read(call[p].op, documents, ResultFilter(call[p]))])]
    /\ UNCHANGED << controller, documents, otherVars >>

\* await this.emit('post-insert-one' | ... | 'post-delete-by-id', result, ...)
EmitOperationPost ==
    /\ mode = "write"
    /\ \E p \in Callers, ok \in BOOLEAN :
          /\ Step(call[p]) = "postOp"
          /\ call' = [call EXCEPT ![p] =
                        Emitted(call[p], OperationEvent("post", call[p].op), call[p].result, ok)]
    /\ UNCHANGED << controller, documents, otherVars >>

\* await this.emit('post-insert' | 'post-update' | 'post-delete'); return result
EmitPost ==
    /\ mode = "write"
    /\ \E p \in Callers, ok \in BOOLEAN :
          /\ Step(call[p]) = "post"
          /\ call' = [call EXCEPT ![p] =
                        Emitted(call[p], GenericEvent("post", call[p].op), Undefined, ok)]
    /\ UNCHANGED << controller, documents, otherVars >>

WriteNext ==
    \/ Construct
    \/ SetCollection
    \/ EmitPre
    \/ EmitOperationPre
    \/ DeleteFind
    \/ FindBefore
    \/ InsertWrite
    \/ UpdateWrite
    \/ DeleteWrite
    \/ FindResult
    \/ EmitOperationPost
    \/ EmitPost

WriteSpec == WriteInit /\ [][WriteNext]_vars

(***************************************************************************)
(* The tokenizer's result, stated from the text: the key is the allowed    *)
(* characters before the first ":", the pair ends at the first "," after   *)
(* it that stands at depth 0.  Positions are 1-based here.                 *)
(***************************************************************************)
Colons(text, start) == { p \in (start + 1) .. Len(text) : text[p] = ":" }
HasColon(text, start) == Colons(text, start) # { }
Colon(text, start) ==
    CHOOSE p \in Colons(text, start) : \A q \in Colons(text, start) : p <= q
DepthAt(text, c, p) ==
    Cardinality({ q \in (c + 1) .. p : text[q] \in kStart })
        - Cardinality({ q \in (c + 1) .. p : text[q] \in kEnd })
Terminators(text, start) ==
    IF HasColon(text, start)
    THEN { p \in (Colon(text, start) + 1) .. Len(text) :
             text[p] = "," /\ DepthAt(text, Colon(text, start), p) = 0 }
    ELSE { }
Terminator(text, start) ==
    CHOOSE p \in Terminators(text, start) : \A q \in Terminators(text, start) : p <= q
KeyOf(text, start) ==
    SelectSeq(SubSeq(text, start + 1,
                     IF HasColon(text, start) THEN Colon(text, start) - 1 ELSE Len(text)),
              LAMBDA c : c \in kKeyAllowedCharacters)
Sentinel(r) == r.key = << >> /\ r.value = << >>
HasKeyword(key) == \E n \in 1 .. Len(postMatchKeywords) : includes(key, postMatchKeywords[n])
Tokenized == mode = "tokenize" /\ pc = "done"
Normalized == mode = "normalize" /\ nPhase # "ready"
Compiled == mode = "pipeline" /\ pc = "done"

RECURSIVE Forbidden(_)
Forbidden(v) ==
    CASE v.t = "str" -> includes(v.s, FnOp) \/ includes(v.s, AccOp)
      [] v.t = "arr" -> \E k \in 1 .. Len(v.items) : Forbidden(v.items[k])
      [] v.t = "obj" ->
            \E k \in 1 .. Len(v.entries) :
                Forbidden(Str(v.entries[k].k)) \/ Forbidden(v.entries[k].v)
      [] OTHER -> FALSE

(***************************************************************************)
(* C1: whenever a string, or a string or key anywhere inside an array or   *)
(* mapping, holds $function or $accumulator, normalize throws the invalid  *)
(* operator error, and no other error, and returns nothing.                *)
(***************************************************************************)
C1_ForbiddenOperatorRejected ==
    (Normalized /\ Forbidden(nInput)) => nResult = Throw("InvalidOperator")

\* a nested operator name, and one inside braces that are no JSON
C1_Witness ==
    /\ Normalized /\ nResult = Throw("InvalidOperator")
    /\ \/ nInput.t = "obj" /\ Forbidden(nInput)
       \/ nInput = Str(<< "{" >> \o FnOp \o << "}" >>)

(***************************************************************************)
(* C2: a classifier loop over a filter makes at most Len(filter) + 1 calls *)
(* of findNextPair and every call starts after the one before it.          *)
(***************************************************************************)
C2_LoopTerminates ==
    mode = "pipeline" =>
        /\ calls <= Len(f) + 1
        /\ \A k \in 1 .. (Len(starts) - 1) : starts[k] < starts[k + 1]

(***************************************************************************)
(* C3: the compiled sequence is the stages of the pre-query, then those of *)
(* buildAggregateBuilder, of the sort, of the pagination and of the        *)
(* post-query, each step giving what its compiler returned.                *)
(***************************************************************************)
C3_StageOrder ==
    Compiled =>
        /\ builder = produced.pre \o produced.built \o produced.sort
                        \o produced.page \o produced.post
        /\ produced.built = transform
        /\ \A k \in 1 .. Len(produced.pre) : produced.pre[k].op = "$match"
        /\ \A k \in 1 .. Len(produced.sort) : produced.sort[k].op = "$sort"
        /\ \A k \in 1 .. Len(produced.page) : produced.page[k].op \in {"$limit", "$skip"}
        /\ \A k \in 1 .. Len(produced.post) : produced.post[k].op = "$match"
        /\ (produced.sort = << >>) <=> (sort = Undefined)
        /\ (produced.page = << >>) <=> (page = Undefined \/ pageSize = Undefined)
        /\ (produced.post = << >>) <=> (postArr = << >>)

C3_Witness ==
    /\ Compiled
    /\ produced.pre # << >> /\ produced.built # << >> /\ produced.sort # << >>
    /\ produced.page # << >> /\ produced.post # << >>

(***************************************************************************)
(* C4: a pair is pushed by computePostQuery iff its key holds a keyword    *)
(* and by computePreQuery iff it holds none, so once both have run every   *)
(* extracted pair is in exactly one of the two lists.                      *)
(***************************************************************************)
C4_Partition ==
    mode = "pipeline" =>
        /\ \A k \in 1 .. Len(preArr) : ~HasKeyword(preArr[k].key)
        /\ \A k \in 1 .. Len(postArr) : HasKeyword(postArr[k].key)
        /\ pc \in {"preLoop", "assemble"} =>
              preArr = SelectSeq(preScan, LAMBDA r : ~HasKeyword(r.key))
        /\ pc \in {"postLoop", "postEnd", "done"} =>
              postArr = SelectSeq(postScan, LAMBDA r : HasKeyword(r.key))
        /\ pc = "done" =>
              /\ preScan = postScan
              /\ preArr = SelectSeq(preScan, LAMBDA r : ~HasKeyword(r.key))

C4_Witness ==
    /\ Compiled /\ preArr # << >> /\ postArr # << >>
    /\ Len(postMatchKeywords) > 1

(***************************************************************************)
(* C5: when a "," at depth 0 follows the first ":", findNextPair returns   *)
(* the allowed characters before that ":" as key, the characters between   *)
(* the ":" and the first such "," as value (commas at depth > 0 included)  *)
(* and endIndex one past that comma; on a:1,b:{c:2,d:3},e:5, the calls at  *)
(* 0, 4 and 16 yield (a,1), (b,{c:2,d:3}) and (e,5).                       *)
(***************************************************************************)
C5_PairExtracted ==
    Tokenized =>
        /\ Terminators(f, i) # { } =>
              last = Pair(i, Terminator(f, i), KeyOf(f, i),
                          SubSeq(f, Colon(f, i) + 1, Terminator(f, i) - 1))
        /\ (f = ExampleFilter /\ i = 0) => last = Pair(0, 4, << "a" >>, << "1" >>)
        /\ (f = ExampleFilter /\ i = 4) => last = Pair(4, 16, << "b" >>, TxtNotJson)
        /\ (f = ExampleFilter /\ i = 16) => last = Pair(16, 20, << "e" >>, << "5" >>)

C5_Witness ==
    Tokenized /\ f = ExampleFilter /\ i = 4 /\ last.value = TxtNotJson /\ last.endIndex = 16

(***************************************************************************)
(* C6: the spans of the pairs a classifier loop extracts are contiguous    *)
(* and do not overlap: each starts where the one before ended and ends     *)
(* after its start.                                                        *)
(***************************************************************************)
SpansContiguous(scan) ==
    /\ \A k \in 1 .. Len(scan) : scan[k].startIndex < scan[k].endIndex
    /\ \A k \in 1 .. (Len(scan) - 1) : scan[k + 1].startIndex = scan[k].endIndex
C6_SpansContiguous ==
    mode = "pipeline" => SpansContiguous(preScan) /\ SpansContiguous(postScan)

(***************************************************************************)
(* C7: when no "," at depth 0 follows the key's ":", findNextPair returns  *)
(* endIndex 0 with the key and value read so far; and a classifier loop    *)
(* stops exactly when key and value are both empty.                        *)
(***************************************************************************)
C7_IncompletePair ==
    /\ (Tokenized /\ Terminators(f, i) = { }) =>
          last = Pair(i, 0, KeyOf(f, i),
                      IF HasColon(f, i) THEN SubSeq(f, Colon(f, i) + 1, Len(f)) ELSE << >>)
    /\ (mode = "pipeline" /\ calls > 0 /\ pc # "error") =>
          (pc \in {"preLoop", "postLoop"} <=> ~Sentinel(last))

\* an unbalanced value, read to the end of the text
C7_Witness ==
    /\ Tokenized /\ Terminators(f, i) = { } /\ HasColon(f, i)
    /\ last.endIndex = 0 /\ last.key # << >> /\ Len(last.value) > 1

(***************************************************************************)
(* C8: of a string that holds no forbidden operator and is not wrapped in  *)
(* braces, normalize returns true or false when it is that word in any     *)
(* case, else the number when it parses as a finite number, else the date  *)
(* when it is an ISO-8601 date, else the string itself.                    *)
(***************************************************************************)
ClaimedRule(s) ==
    IF toLowerCase(s) = Chars("true") THEN Bool(TRUE)
    ELSE IF toLowerCase(s) = Chars("false") THEN Bool(FALSE)
    ELSE IF StringToNumber(s).t = "num" THEN StringToNumber(s)
    ELSE IF isISO8601Date(s) THEN newDate(s)
    ELSE Str(s)
C8_FirstMatchingRule ==
    (Normalized /\ isString(nInput) /\ ~Forbidden(nInput) /\ ~IsWrapped(nInput))
        => nResult = ClaimedRule(nInput.s)

(***************************************************************************)
(* C9: normalize of the empty string is the empty string, and a filter     *)
(* pair with an empty value is embedded with the value "".                 *)
(***************************************************************************)
C9_EmptyStringKept ==
    /\ (Normalized /\ nInput = Str(<< >>)) => nResult = Str(<< >>)
    /\ (mode = "pipeline" /\ pc = "preLoop") =>
          \A k \in 1 .. Len(preArr) :
              preArr[k].value = << >> => arr[k + Len(arr) - Len(preArr)].v = Str(<< >>)

(***************************************************************************)
(* C10: normalize(normalize(v)) returns and equals normalize(v).  Stated   *)
(* under the isJSON that favours it (a Date is returned unchanged).        *)
(***************************************************************************)
C10_Idempotent ==
    (mode = "normalize" /\ nPhase = "twice" /\ ~jsonLoose) => nAgain = nResult

(***************************************************************************)
(* C11: in every mapping normalize goes through, at any depth, the entry   *)
(* of a key dateString or $regex is the plain string form of its value     *)
(* (123 stays "123", true stays "true"), and the entry of any other key is *)
(* normalize of its value.  The values are those of the mapping the code   *)
(* iterates, the one parsed back from the JSON text of the argument.       *)
(***************************************************************************)
IteratedMapping ==
    IF IsWrapped(nInput) THEN JSONparse(nInput.s)
    ELSE IF nInput.t = "obj" THEN JSONparse(JSONstringify(nInput))
    ELSE Null

KeptKeys == { Chars("dateString"), Chars("$regex") }

RECURSIVE EntriesInferred(_, _)
EntriesInferred(given, out) ==
    CASE given.t = "obj" ->
            /\ out.t = "obj"
            /\ Len(out.entries) = Len(given.entries)
            /\ \A k \in 1 .. Len(given.entries) :
                  /\ out.entries[k].k = given.entries[k].k
                  /\ IF given.entries[k].k \in KeptKeys
                     THEN /\ out.entries[k].v.t = "str"
                          /\ out.entries[k].v.s = ToStringJS(given.entries[k].v)
                     ELSE EntriesInferred(given.entries[k].v, out.entries[k].v)
      [] given.t = "arr" ->
            /\ out.t = "arr"
            /\ Len(out.items) = Len(given.items)
            /\ \A k \in 1 .. Len(given.items) : EntriesInferred(given.items[k], out.items[k])
      [] OTHER -> out = normalize(given)

C11_LiteralKeysKept ==
    (Normalized /\ nResult.t # "throw" /\ IteratedMapping.t = "obj")
        => EntriesInferred(IteratedMapping, nResult)

\* a number and a boolean under the kept keys, a numeric string under another
C11_Witness ==
    /\ Normalized /\ nInput = Str(TxtJsonKept)
    /\ nResult = Obj(<< Entry(Chars("$regex"), Str(<< "1", "2", "3" >>)),
                        Entry(Chars("dateString"), Str(Chars("true"))),
                        Entry(<< "n" >>, Num(123)) >>)

(***************************************************************************)
(* C12: once a classifier loop has extracted a pair whose value holds a    *)
(* forbidden operator, or is wrapped in braces and is no JSON, the compile *)
(* returns no stage sequence and fails with the error of normalize: it is  *)
(* in error, or still advancing through the filter to the loop that        *)
(* classifies the pair, never scanning from an index it has been at.       *)
(***************************************************************************)
BadValue(value) ==
    \/ includes(value, FnOp) \/ includes(value, AccOp)
    \/ /\ startsWith(value, << "{" >>) /\ endsWith(value, << "}" >>)
       /\ JSONparse(value) = Throw("SyntaxError")
HasBadPair(scan) == \E k \in 1 .. Len(scan) : BadValue(scan[k].value)

C12_FailureAborts ==
    (mode = "pipeline" /\ (HasBadPair(preScan) \/ HasBadPair(postScan))) =>
        /\ pc # "done"
        /\ pc = "error" => error \in { Throw("InvalidOperator"), Throw("SyntaxError") }
        /\ pc # "error" => \A k \in 1 .. (Len(starts) - 1) : starts[k] < starts[k + 1]

(***************************************************************************)
(* C13: the conditions of computePreQuery hold a search condition iff the  *)
(* search term is a non-empty string or a mapping and the list of search   *)
(* fields is not empty; it is then the first condition and the only OR,    *)
(* with one entry per search field, in the order of the fields, all of the *)
(* same normalized term.                                                   *)
(***************************************************************************)
PreConditions == IF pc \in {"preLoop", "assemble"} THEN arr ELSE produced.pre[1].and
IsOr(c) == "or" \in DOMAIN c
SearchApplies ==
    /\ (search.t = "str" /\ search.s # << >>) \/ search.t = "obj"
    /\ searchFields # << >>

C13_SearchCondition ==
    (mode = "pipeline" /\ pc \notin {"start", "error"}) =>
        LET ors == SelectSeq(PreConditions, IsOr)
        IN  IF SearchApplies
            THEN /\ Len(ors) = 1 /\ PreConditions[1] = ors[1]
                 /\ Len(ors[1].or) = Len(searchFields)
                 /\ \A k \in 1 .. Len(searchFields) :
                       /\ ors[1].or[k].k = searchFields[k]
                       /\ ors[1].or[k].v = ors[1].or[1].v
                       /\ ors[1].or[k].v.t # "throw"
                 /\ ~autoRegExpSearch => ors[1].or[1].v = normalize(search)
            ELSE ors = << >>

\* a mapping as the term, two fields, and a filter condition after the OR
C13_Witness ==
    /\ Compiled /\ search.t = "obj" /\ Len(searchFields) = 2
    /\ Len(produced.pre[1].and) > 1 /\ IsOr(produced.pre[1].and[1])
    /\ produced.pre[1].and[1].or[2].k = TxtEmail

(***************************************************************************)
(* C14: with autoRegExpSearch, a search term that is a string and is not   *)
(* both opened by "{" and closed by "}" gives every search field the       *)
(* condition { $regex: term, $options: 'i' }, the term kept as a string; a *)
(* term that is such a fragment, or a mapping, is normalized as it is.     *)
(***************************************************************************)
ContainsCondition(term) ==
    Obj(<< Entry(Chars("$regex"), Str(term)),
           Entry(<< "$", "o", "p", "t", "i", "o", "n", "s" >>, Str(<< "i" >>)) >>)

C14_RegExpSearch ==
    (mode = "pipeline" /\ pc \notin {"start", "error"} /\ SearchApplies /\ autoRegExpSearch) =>
        \A k \in 1 .. Len(searchFields) :
            PreConditions[1].or[k].v =
                IF search.t = "str" /\ ~(startsWith(search.s, << "{" >>) /\ endsWith(search.s, << "}" >>))
                THEN ContainsCondition(search.s)
                ELSE normalize(search)

(***************************************************************************)
(* C15: the sort stage maps, for each token between commas whose name is   *)
(* not blank, the name to -1 when the token starts with "-" and to 1       *)
(* otherwise; the name is the token without that leading "-" or "+", and   *)
(* nothing else removed but the blanks around it; names stand in the order *)
(* they are first seen.  name,-age gives {name: 1, age: -1}, and no sort   *)
(* gives no stage.                                                         *)
(***************************************************************************)
LeadingSign(token) == token # << >> /\ token[1] \in { "-", "+" }
ClaimedName(token) ==
    trim(IF LeadingSign(token) THEN SubSeq(token, 2, Len(token)) ELSE token)
ClaimedOrder(token) == IF token # << >> /\ token[1] = "-" THEN 0 - 1 ELSE 1

RECURSIVE ClaimedSort(_, _, _)
ClaimedSort(tokens, n, opt) ==
    IF n > Len(tokens) THEN opt
    ELSE ClaimedSort(tokens, n + 1,
                     IF ClaimedName(tokens[n]) # << >>
                     THEN SortSet(opt, ClaimedName(tokens[n]), ClaimedOrder(tokens[n]))
                     ELSE opt)

C15_SortOrdering ==
    (mode = "pipeline" /\ pc \in {"postLoop", "postEnd", "done"}) =>
        /\ sort = Undefined => produced.sort = << >>
        /\ isString(sort) =>
              produced.sort = << SortStage(ClaimedSort(split(sort.s), 1, << >>)) >>
        /\ sort = Str(<< "n", "a", "m", "e", ",", "-", "a", "g", "e" >>) =>
              produced.sort = << SortStage(<< [k |-> TxtName, order |-> 1],
                                              [k |-> << "a", "g", "e" >>, order |-> 0 - 1] >>) >>

(***************************************************************************)
(* C16: computeOption gives no stage iff page or pageSize is undefined;    *)
(* otherwise one skip and one limit, with skip = (page - 1) * pageSize for *)
(* a page above 0 and 0 for any other, and limit = pageSize + skip, so     *)
(* limit - skip = pageSize.  Page 2 of 10 skips 10 with limit 20; page 0   *)
(* of 10 skips 0 with limit 10.                                            *)
(***************************************************************************)
Paged == mode = "pipeline" /\ pc \in {"postLoop", "postEnd", "done"}
StageCount(stages, op) == Cardinality({ k \in 1 .. Len(stages) : stages[k].op = op })
StageArg(stages, op) == stages[CHOOSE k \in 1 .. Len(stages) : stages[k].op = op].n

C16_SkipAndLimit ==
    Paged =>
        /\ (produced.page = << >>) <=> (page = Undefined \/ pageSize = Undefined)
        /\ produced.page # << >> =>
              LET skip == StageArg(produced.page, "$skip")
                  limit == StageArg(produced.page, "$limit")
              IN  /\ Len(produced.page) = 2
                  /\ StageCount(produced.page, "$skip") = 1
                  /\ StageCount(produced.page, "$limit") = 1
                  /\ skip = IF page.n > 0 THEN (page.n - 1) * pageSize.n ELSE 0
                  /\ limit = pageSize.n + skip
                  /\ limit - skip = pageSize.n
                  /\ (page = Num(2) /\ pageSize = Num(10)) => (skip = 10 /\ limit = 20)
                  /\ (page = Num(0) /\ pageSize = Num(10)) => (skip = 0 /\ limit = 10)

\* a page above the first
C16_Witness ==
    /\ Paged /\ page = Num(3) /\ pageSize = Num(4)
    /\ StageArg(produced.page, "$skip") = 8 /\ StageArg(produced.page, "$limit") = 12

(***************************************************************************)
(* C17, as claimed: the pagination part is the skip stage and then the     *)
(* limit stage, and the compile of search bob over name and email, filter  *)
(* status:active, sort -createdAt, page 1 of 5 and no post keyword is      *)
(* [pre-match, transformation, sort, skip 0, limit 5].                     *)
(***************************************************************************)
ExampleCompile ==
    /\ Compiled /\ search = Str(TxtBob) /\ searchFields = << TxtName, TxtEmail >>
    /\ autoRegExpSearch /\ filter = Str(StatusFilter) /\ postMatchKeywords = << >>
    /\ sort = Str(<< "-" >> \o TxtCreatedAt) /\ page = Num(1) /\ pageSize = Num(5)
ExamplePreMatch ==
    MatchStage(<< [or |-> << Entry(TxtName, ContainsCondition(TxtBob)),
                             Entry(TxtEmail, ContainsCondition(TxtBob)) >>],
                  Entry(TxtStatus, Str(<< "a", "c", "t", "i", "v", "e" >>)) >>)
ExampleSort == SortStage(<< [k |-> TxtCreatedAt, order |-> 0 - 1] >>)

C17_SkipThenLimit ==
    /\ (Paged /\ produced.page # << >>) =>
          /\ Len(produced.page) = 2
          /\ produced.page[1].op = "$skip" /\ produced.page[2].op = "$limit"
    /\ ExampleCompile =>
          builder = << ExamplePreMatch >> \o transform
                        \o << ExampleSort, SkipStage(0), LimitStage(5) >>

(***************************************************************************)
(* C17, as the code has it: the pagination part is the limit stage, of     *)
(* pageSize + skip, and then the skip stage; the example compiles to       *)
(* [pre-match, transformation, sort, limit 5, skip 0], with no post-match. *)
(***************************************************************************)
C17_LimitThenSkip ==
    /\ (Paged /\ produced.page # << >>) =>
          /\ Len(produced.page) = 2
          /\ produced.page[1].op = "$limit" /\ produced.page[2].op = "$skip"
          /\ produced.page[1].n = pageSize.n + produced.page[2].n
    /\ ExampleCompile =>
          builder = << ExamplePreMatch >> \o transform
                        \o << ExampleSort, LimitStage(5), SkipStage(0) >>

C17_Witness ==
    /\ ExampleCompile /\ transform # << >>
    /\ builder[Len(builder) - 1] = LimitStage(5) /\ builder[Len(builder)] = SkipStage(0)

(***************************************************************************)
(* C18: when the search gives no condition and no filter pair is           *)
(* pre-classified, the compiled sequence holds no pre-query stage: it      *)
(* starts with the first stage of the transformation, sort, pagination or  *)
(* post-query, or is empty.                                                *)
(***************************************************************************)
C18_PreQueryOmitted ==
    (Compiled /\ ~SearchApplies /\ preArr = << >>) =>
        /\ produced.pre = << >>
        /\ builder = produced.built \o produced.sort \o produced.page \o produced.post

(***************************************************************************)
(* C19: the compiled sequence holds no post-query stage iff no pair of the *)
(* filter has a key that holds a post keyword, as with a filter that is no *)
(* string or with no keyword; otherwise it holds one match stage whose     *)
(* conditions are exactly those pairs, in the order of the filter, each    *)
(* with its normalized value, and never a match of no condition.           *)
(***************************************************************************)
Qualifying == SelectSeq(postScan, LAMBDA r : HasKeyword(r.key))

C19_PostQuerySentinel ==
    Compiled =>
        /\ (produced.post = << >>) <=> (Qualifying = << >>)
        /\ (~isString(filter) \/ postMatchKeywords = << >>) => produced.post = << >>
        /\ produced.post # << >> =>
              /\ Len(produced.post) = 1
              /\ produced.post[1].op = "$match"
              /\ produced.post[1].and # << >>
              /\ Len(produced.post[1].and) = Len(Qualifying)
              /\ \A k \in 1 .. Len(Qualifying) :
                    /\ produced.post[1].and[k].k = Qualifying[k].key
                    /\ produced.post[1].and[k].v = normalize(Str(Qualifying[k].value))
              /\ builder[Len(builder)] = produced.post[1]

\* two pairs of three qualify, under the second and the first keyword
C19_Witness ==
    /\ Compiled /\ Len(postMatchKeywords) = 2 /\ Len(postScan) > Len(Qualifying)
    /\ produced.post # << >> /\ Len(produced.post[1].and) = 2

(***************************************************************************)
(* C20: in a compiled sequence no condition built from a filter pair or    *)
(* from the search term holds $function or $accumulator, neither in its    *)
(* key nor in its value.                                                   *)
(***************************************************************************)
CleanCondition(c) ==
    IF IsOr(c)
    THEN \A k \in 1 .. Len(c.or) : ~Forbidden(c.or[k].v)
    ELSE ~Forbidden(Str(c.k)) /\ ~Forbidden(c.v)

C20_NoForbiddenOperator ==
    Compiled =>
        \A n \in 1 .. Len(builder) :
            builder[n].op = "$match" =>
                \A k \in 1 .. Len(builder[n].and) : CleanCondition(builder[n].and[k])

(***************************************************************************)
(* C22: every sort stage of a compile orders by at least one field; a sort *)
(* string without a name that is not blank gives no sort stage.            *)
(***************************************************************************)
NoSortName(s) == \A n \in 1 .. Len(split(s)) : ClaimedName(split(s)[n]) = << >>

C22_NoEmptySort ==
    Paged =>
        /\ \A n \in 1 .. Len(builder) : builder[n].op = "$sort" => builder[n].by # << >>
        /\ (isString(sort) /\ NoSortName(sort.s)) => produced.sort = << >>

(***************************************************************************)
(* C21: run in the order they stand in, over any N rows, the pagination    *)
(* stages of a page >= 1 of pageSize >= 0 give the rows at the positions   *)
(* skip .. skip + pageSize - 1 (from 0) that the input has:                *)
(* min(pageSize, max(0, N - skip)) rows, at most pageSize, none before     *)
(* skip.  A limit stage keeps the first n rows, a skip stage drops them.   *)
(***************************************************************************)
Min(a, b) == IF a < b THEN a ELSE b
Max(a, b) == IF a > b THEN a ELSE b
Rows(n) == [ k \in 1 .. n |-> k - 1 ]

RECURSIVE RunStages(_, _, _)
RunStages(stages, n, rows) ==
    IF n > Len(stages) THEN rows
    ELSE RunStages(stages, n + 1,
                   IF stages[n].op = "$limit"
                   THEN SubSeq(rows, 1, Min(stages[n].n, Len(rows)))
                   ELSE SubSeq(rows, Min(stages[n].n, Len(rows)) + 1, Len(rows)))

C21_PageRows ==
    (Paged /\ produced.page # << >> /\ page.n >= 1 /\ pageSize.n >= 0) =>
        LET skip == (page.n - 1) * pageSize.n
        IN  \A N \in 0 .. MaxRows :
                LET out == RunStages(produced.page, 1, Rows(N))
                IN  /\ Len(out) = Min(pageSize.n, Max(0, N - skip))
                    /\ Len(out) <= pageSize.n
                    /\ \A k \in 1 .. Len(out) : out[k] = skip + k - 1

\* the last page of 6 rows, cut short, and a page past the end
C21_Witness ==
    /\ Paged /\ page = Num(2) /\ pageSize = Num(4)
    /\ RunStages(produced.page, 1, Rows(6)) = << 4, 5 >>
    /\ RunStages(produced.page, 1, Rows(3)) = << >>
    /\ RunStages(produced.page, 1, Rows(14)) = << 4, 5, 6, 7 >>

(***************************************************************************)
(* C26: the Controller's collection is never empty.                        *)
(***************************************************************************)
Highest(S) == CHOOSE x \in S : \A y \in S : y <= x
Kept(values) == { k \in 1 .. Len(values) : ~isEmpty(values[k]) }
LastKept(values) == values[Highest(Kept(values))]

\* C26: a Controller always holds a non-empty collection: constructing one
\* with an empty collection throws before any state is created, after any
\* sequence of assignments the stored collection is the last non-empty
\* value assigned, and assigning an empty value throws and leaves the
\* stored collection unchanged.
C26_NonEmptyCollection ==
    (mode = "collection" /\ controller.assigned # << >>) =>
        /\ isEmpty(controller.assigned[1]) =>
              /\ controller.private = Undefined /\ controller.thrown
              /\ Len(controller.assigned) = 1
        /\ ~isEmpty(controller.assigned[1]) =>
              /\ controller.private # Undefined
              /\ ~isEmpty(controller.private.collection)
              /\ controller.private.collection = LastKept(controller.assigned)
        /\ controller.thrown <=> isEmpty(controller.assigned[Len(controller.assigned)])

C26_Witness ==
    /\ mode = "collection"
    /\ controller.assigned
          = << CollectionNamed(<< "a" >>), CollectionNamed(<< "b" >>), Obj(<< >>) >>
    /\ controller.thrown
    /\ controller.private.collection = CollectionNamed(<< "b" >>)

(***************************************************************************)
(* C23: the events of a write operation, from the operation's log.         *)
(***************************************************************************)
Logged(event, payload) == [event |-> event, result |-> payload, ok |-> TRUE]
ExpectedLog(c) ==
    << Logged(GenericEvent("pre", c.op), Undefined),
       Logged(OperationEvent("pre", c.op), Undefined),
       Logged(Written, Undefined),
       Logged(OperationEvent("post", c.op), c.result),
       Logged(GenericEvent("post", c.op), Undefined) >>
IsPrefix(s, t) == Len(s) <= Len(t) /\ \A k \in 1 .. Len(s) : s[k] = t[k]
Running(c) == c.op \in Operations

\* C23: every write operation emits, exactly once each and in this order,
\* its generic pre event, its operation-specific pre event, then performs
\* the collection write, then emits its operation-specific post event
\* carrying the result it returns and its generic post event last; no step
\* starts before the emit ahead of it has returned.
C23_EventOrder ==
    mode = "write" =>
        \A p \in Callers :
            Running(call[p]) =>
                /\ call[p].state = "returned" => call[p].log = ExpectedLog(call[p])
                /\ call[p].state = "running" => IsPrefix(call[p].log, ExpectedLog(call[p]))
                /\ call[p].state = "failed" =>
                      /\ call[p].log # << >>
                      /\ IsPrefix(SubSeq(call[p].log, 1, Len(call[p].log) - 1),
                                  ExpectedLog(call[p]))
                      /\ Len(call[p].log) <= Len(ExpectedLog(call[p]))
                      /\ call[p].log[Len(call[p].log)]
                            = [ExpectedLog(call[p])[Len(call[p].log)] EXCEPT !.ok = FALSE]

C23_Witness ==
    /\ mode = "write"
    /\ call["first"].op = "updateOne" /\ call["first"].state = "returned"
    /\ call["first"].result = Doc(1, 2)
    /\ call["first"].log[4] = Logged(OperationEvent("post", "updateOne"), Doc(1, 2))
    /\ call["second"].op = "deleteMany" /\ call["second"].state = "returned"
    /\ Len(call["second"].log) = 5

(***************************************************************************)
(* C24: a listener of a pre event fails.                                   *)
(***************************************************************************)
FailedPre(c) == { k \in 1 .. Len(c.log) : c.log[k].event.phase = "pre" /\ ~c.log[k].ok }
HasWritten(c) == \E k \in 1 .. Len(c.log) : c.log[k].event = Written

\* C24: when a listener of the generic or of the operation-specific pre
\* event of a write operation fails, the operation fails with that error,
\* performs no insert, update or delete and emits none of its post events;
\* the documents of the collection are those from before the call.
C24_PreFailureAborts ==
    mode = "write" =>
        \A p \in Callers :
            \A k \in FailedPre(call[p]) :
                /\ call[p].state = "failed"
                /\ call[p].error = Throw(call[p].log[k].event)
                /\ k = Len(call[p].log)
                /\ \A j \in 1 .. Len(call[p].log) : call[p].log[j].event.phase = "pre"
                /\ call[p].removed = { }
                /\ (\A q \in Callers \ { p } : ~HasWritten(call[q])) =>
                      documents = call[p].before

C24_Witness ==
    /\ mode = "write"
    /\ call["first"].op = "deleteOne" /\ call["first"].state = "failed"
    /\ call["first"].error = Throw(OperationEvent("pre", "deleteOne"))
    /\ call["first"].result = Doc(1, 1)
    /\ documents[1] = 1
    /\ call["second"].op = "idle"

(***************************************************************************)
(* C25: what a delete operation returns and what it removed.               *)
(***************************************************************************)
ResultIds(c) ==
    IF IsMany(c.op) THEN { c.result[k].id : k \in 1 .. Len(c.result) }
    ELSE IF c.result = Null THEN { } ELSE { c.result.id }
RemovedIds(c) == { d.id : d \in c.removed }

\* C25: under every interleaving with the other operations on the same
\* collection, the documents a delete operation returns, and hands to its
\* post-delete event, are exactly the documents this call removed; a null
\* or empty result means this call removed nothing.
C25_DeleteReturnsRemoved ==
    mode = "write" =>
        \A p \in Callers :
            (call[p].op \in Deletes /\ call[p].state = "returned") =>
                /\ ResultIds(call[p]) = RemovedIds(call[p])
                /\ call[p].log[4].result = call[p].result

====
